---- MODULE Spec2Model ----
(***************************************************************************)
(* A model of the assembler / disassembler of src/src/main.rs.             *)
(*                                                                         *)
(* Text is a sequence of one-character strings.  A 32-bit word (u32) is a  *)
(* function from bit index 0..31 (0 = least significant) to {0, 1}, so     *)
(* that shifts, masks and ors are the bit operations of the source and no  *)
(* word is ever squeezed into a machine integer of the checker.            *)
(***************************************************************************)
EXTENDS Integers, Sequences, FiniteSets, TLC

(***************************************************************************)
(* Opcode constants (main.rs lines 6-16).                                  *)
(***************************************************************************)
OPCODE_HALT == 0
OPCODE_ADD == 1
OPCODE_ADDI == 2
OPCODE_BNE == 3
OPCODE_MUL == 4
OPCODE_LUI == 5
OPCODE_LW == 6
OPCODE_SW == 7
OPCODE_BLT == 8
OPCODE_SLLI == 9
OPCODE_SUB == 10

(***************************************************************************)
(* Bounds of the model.                                                    *)
(***************************************************************************)
\* register numerals 0..RegSpan and 31-RegSpan..31 are drawn (plus 16)
RegSpan == 1
\* immediates -ImmSpan..ImmSpan and the ImmSpan+1 values at each end of the
\* signed 16-bit range are drawn (plus the values of the tests)
ImmSpan == 1
\* how far past the signed 16-bit range the out-of-range decimals reach
OverSpan == 1
\* the longest source program, in lines, and the longest image, in words
MaxLines == 3

(***************************************************************************)
(* u32 values as bit vectors.                                              *)
(***************************************************************************)
BitIx == 0..31

\* the u32 whose value is n, for 0 <= n < 2^31
U32(n) == [i \in BitIx |-> IF i = 31 THEN 0 ELSE (n \div (2^i)) % 2]

\* `v as u32` for an i16: the 16-bit two's complement pattern, sign-extended
I16AsU32(v) ==
    LET u == v % 65536
    IN  [i \in BitIx |-> IF i < 16 THEN (u \div (2^i)) % 2 ELSE (u \div 32768) % 2]

BitAnd(a, b) == [i \in BitIx |-> a[i] * b[i]]

BitOr(a, b) == [i \in BitIx |-> IF a[i] = 1 \/ b[i] = 1 THEN 1 ELSE 0]

Shl(a, n) == [i \in BitIx |-> IF i >= n THEN a[i - n] ELSE 0]

Shr(a, n) == [i \in BitIx |-> IF i + n <= 31 THEN a[i + n] ELSE 0]

RECURSIVE BitsVal(_, _, _)
\* the number held in the n bits of a from bit lo upward (n <= 31)
BitsVal(a, lo, n) ==
    IF n = 0 THEN 0 ELSE a[lo] + 2 * BitsVal(a, lo + 1, n - 1)

\* the value of a u32 known to be below 2^31 (after a mask)
Val(a) == BitsVal(a, 0, 31)

\* `a as i16`: the low 16 bits, read as two's complement
AsI16(a) ==
    LET u == BitsVal(a, 0, 16)
    IN  IF u >= 32768 THEN u - 65536 ELSE u

\* `v as u16 as i16` for an i32 v
I32AsI16(v) ==
    LET u == v % 65536
    IN  IF u >= 32768 THEN u - 65536 ELSE u

ZeroWord == [i \in BitIx |-> 0]

(***************************************************************************)
(* The encoders (main.rs lines 22-103).                                    *)
(***************************************************************************)
\* fault seeded for the A-type frame: the registers placed without their masks
encode_a_unmasked(opcode, rd, rs1, rs2) ==
    BitOr(BitOr(BitOr(BitOr(
        Shl(U32(0), 21),
        Shl(U32(rs2), 16)),
        Shl(U32(rs1), 11)),
        Shl(U32(rd), 6)),
        BitAnd(U32(opcode), U32(63)))

encode_a(opcode, rd, rs1, rs2) ==
    BitOr(BitOr(BitOr(BitOr(
        Shl(U32(0), 21),
        Shl(BitAnd(U32(rs2), U32(31)), 16)),
        Shl(BitAnd(U32(rs1), U32(31)), 11)),
        Shl(BitAnd(U32(rd), U32(31)), 6)),
        BitAnd(U32(opcode), U32(63)))

\* fault seeded for the addi scenario: encode_b with rd and rs1 exchanged
encode_b_regs_exchanged(opcode, rd, rs1, imm) ==
    LET imm_u32 == BitAnd(I16AsU32(imm), U32(65535))
    IN  BitOr(BitOr(BitOr(
            Shl(imm_u32, 16),
            Shl(BitAnd(U32(rd), U32(31)), 11)),
            Shl(BitAnd(U32(rs1), U32(31)), 6)),
            BitAnd(U32(opcode), U32(63)))

encode_b(opcode, rd, rs1, imm) ==
    LET imm_u32 == BitAnd(I16AsU32(imm), U32(65535))
    IN  BitOr(BitOr(BitOr(
            Shl(imm_u32, 16),
            Shl(BitAnd(U32(rs1), U32(31)), 11)),
            Shl(BitAnd(U32(rd), U32(31)), 6)),
            BitAnd(U32(opcode), U32(63)))

encode_c(opcode, rs1, rs2, offset) ==
    LET offset_u32 == I16AsU32(offset)
        imm_high == BitAnd(Shr(offset_u32, 5), U32(2047))
        imm_low == BitAnd(offset_u32, U32(31))
    IN  BitOr(BitOr(BitOr(BitOr(
            Shl(imm_high, 21),
            Shl(U32(rs1), 16)),
            Shl(U32(rs2), 11)),
            Shl(imm_low, 6)),
            BitAnd(U32(opcode), U32(63)))

encode_add(rd, rs1, rs2) == encode_a(OPCODE_ADD, rd, rs1, rs2)

encode_mul(rd, rs1, rs2) == encode_a(OPCODE_MUL, rd, rs1, rs2)

encode_addi(rd, rs1, imm) == encode_b(OPCODE_ADDI, rd, rs1, imm)

encode_lui(rd, imm) == encode_b(OPCODE_LUI, rd, 0, imm)

encode_lw(rd, rs1, offset) == encode_b(OPCODE_LW, rd, rs1, offset)

\* fault seeded for the bne scenario: the operands handed to encode_c
\* exchanged (the "fixed" variant src/test_bne.rs tries)
encode_bne_exchanged(rs1, rs2, offset) == encode_c(OPCODE_BNE, rs2, rs1, offset)

encode_bne(rs1, rs2, offset) == encode_c(OPCODE_BNE, rs1, rs2, offset)

encode_sw(rs1, rs2, offset) == encode_c(OPCODE_SW, rs2, rs1, offset)

\* fault seeded for the branch field assignment: blt encoded in bne's order
encode_blt_as_bne(rs1, rs2, offset) == encode_c(OPCODE_BLT, rs1, rs2, offset)

encode_blt(rs1, rs2, offset) == encode_c(OPCODE_BLT, rs2, rs1, offset)

encode_slli(rd, rs1, imm) == encode_b(OPCODE_SLLI, rd, rs1, imm)

encode_sub(rd, rs1, rs2) == encode_a(OPCODE_SUB, rd, rs1, rs2)

encode_halt == ZeroWord

(***************************************************************************)
(* Formatting: what format!'s {} and {:08X} print.                         *)
(***************************************************************************)
DecDigits == <<"0", "1", "2", "3", "4", "5", "6", "7", "8", "9">>

HexDigits == <<"0", "1", "2", "3", "4", "5", "6", "7", "8", "9",
               "A", "B", "C", "D", "E", "F">>

RECURSIVE FmtNat(_)
\* {} of a non-negative integer: decimal, no sign, no leading zero
FmtNat(n) ==
    IF n < 10 THEN <<DecDigits[n + 1]>>
    ELSE FmtNat(n \div 10) \o <<DecDigits[(n % 10) + 1]>>

\* {} of a signed integer
FmtInt(v) == IF v < 0 THEN <<"-">> \o FmtNat(0 - v) ELSE FmtNat(v)

\* {:08X} of a u32: eight upper-case hexadecimal digits, most significant first
FmtHex8(w) == [k \in 1..8 |-> HexDigits[BitsVal(w, 4 * (8 - k), 4) + 1]]

\* the literals of the decoder's format strings
S_add == <<"a", "d", "d">>
S_mul == <<"m", "u", "l">>
S_sub == <<"s", "u", "b">>
S_addi == <<"a", "d", "d", "i">>
S_slli == <<"s", "l", "l", "i">>
S_lui == <<"l", "u", "i">>
S_lw == <<"l", "w">>
S_sw == <<"s", "w">>
S_bne == <<"b", "n", "e">>
S_blt == <<"b", "l", "t">>
S_halt == <<"h", "a", "l", "t">>
S_x == <<" ", "x">>
S_cx == <<",", " ", "x">>
S_c == <<",", " ">>
S_px == <<"(", "x">>
S_p == <<")">>

\* the four "unknown instruction" prefixes; each of the source's CJK
\* characters is one element, written in pinyin
S_unknown == <<"wei", "zhi", "zhi", "ling", ":", " ", "0", "x">>
S_unknownA == <<"wei", "zhi", "A", "xing", "zhi", "ling", ":", " ", "0", "x">>
S_unknownB == <<"wei", "zhi", "B", "xing", "zhi", "ling", ":", " ", "0", "x">>
S_unknownC == <<"wei", "zhi", "C", "xing", "zhi", "ling", ":", " ", "0", "x">>

(***************************************************************************)
(* The decoders (main.rs lines 247-325).                                   *)
(***************************************************************************)
\* fault seeded for the cleared bits: an A-type word with a bit of 31:21 set
\* is reported unknown
decode_a_type_strict(instr) ==
    LET opcode == Val(BitAnd(instr, U32(63)))
        rd == Val(BitAnd(Shr(instr, 6), U32(31)))
        rs1 == Val(BitAnd(Shr(instr, 11), U32(31)))
        rs2 == Val(BitAnd(Shr(instr, 16), U32(31)))
        regs == S_x \o FmtNat(rd) \o S_cx \o FmtNat(rs1) \o S_cx \o FmtNat(rs2)
    IN  CASE Shr(instr, 21) # ZeroWord -> S_unknownA \o FmtHex8(instr)
          [] Shr(instr, 21) = ZeroWord /\ opcode = OPCODE_ADD -> S_add \o regs
          [] Shr(instr, 21) = ZeroWord /\ opcode = OPCODE_MUL -> S_mul \o regs
          [] Shr(instr, 21) = ZeroWord /\ opcode = OPCODE_SUB -> S_sub \o regs
          [] OTHER -> S_unknownA \o FmtHex8(instr)

decode_a_type(instr) ==
    LET opcode == Val(BitAnd(instr, U32(63)))
        rd == Val(BitAnd(Shr(instr, 6), U32(31)))
        rs1 == Val(BitAnd(Shr(instr, 11), U32(31)))
        rs2 == Val(BitAnd(Shr(instr, 16), U32(31)))
        regs == S_x \o FmtNat(rd) \o S_cx \o FmtNat(rs1) \o S_cx \o FmtNat(rs2)
    IN  CASE opcode = OPCODE_ADD -> S_add \o regs
          [] opcode = OPCODE_MUL -> S_mul \o regs
          [] opcode = OPCODE_SUB -> S_sub \o regs
          [] OTHER -> S_unknownA \o FmtHex8(instr)

\* fault seeded for the subset round trip: the immediate printed unsigned
decode_b_type_unsigned(instr) ==
    LET opcode == Val(BitAnd(instr, U32(63)))
        rd == Val(BitAnd(Shr(instr, 6), U32(31)))
        rs1 == Val(BitAnd(Shr(instr, 11), U32(31)))
        imm == Val(BitAnd(Shr(instr, 16), U32(65535)))
    IN  CASE opcode = OPCODE_ADDI ->
               S_addi \o S_x \o FmtNat(rd) \o S_cx \o FmtNat(rs1) \o S_c \o FmtInt(imm)
          [] opcode = OPCODE_LUI ->
               S_lui \o S_x \o FmtNat(rd) \o S_c \o FmtInt(imm)
          [] opcode = OPCODE_LW ->
               S_lw \o S_x \o FmtNat(rd) \o S_c \o FmtInt(imm) \o S_px \o FmtNat(rs1) \o S_p
          [] opcode = OPCODE_SLLI ->
               S_slli \o S_x \o FmtNat(rd) \o S_cx \o FmtNat(rs1) \o S_c \o FmtInt(imm)
          [] OTHER -> S_unknownB \o FmtHex8(instr)

decode_b_type(instr) ==
    LET opcode == Val(BitAnd(instr, U32(63)))
        rd == Val(BitAnd(Shr(instr, 6), U32(31)))
        rs1 == Val(BitAnd(Shr(instr, 11), U32(31)))
        imm == AsI16(BitAnd(Shr(instr, 16), U32(65535)))
    IN  CASE opcode = OPCODE_ADDI ->
               S_addi \o S_x \o FmtNat(rd) \o S_cx \o FmtNat(rs1) \o S_c \o FmtInt(imm)
          [] opcode = OPCODE_LUI ->
               S_lui \o S_x \o FmtNat(rd) \o S_c \o FmtInt(imm)
          [] opcode = OPCODE_LW ->
               S_lw \o S_x \o FmtNat(rd) \o S_c \o FmtInt(imm) \o S_px \o FmtNat(rs1) \o S_p
          [] opcode = OPCODE_SLLI ->
               S_slli \o S_x \o FmtNat(rd) \o S_cx \o FmtNat(rs1) \o S_c \o FmtInt(imm)
          [] OTHER -> S_unknownB \o FmtHex8(instr)

\* fault seeded for the C-type immediate: the high part read through a
\* 10-bit mask, so that the sign bit is lost
decode_c_type_mask10(instr) ==
    LET opcode == Val(BitAnd(instr, U32(63)))
        imm_low == BitAnd(Shr(instr, 6), U32(31))
        rs2 == Val(BitAnd(Shr(instr, 11), U32(31)))
        rs1 == Val(BitAnd(Shr(instr, 16), U32(31)))
        imm_high == BitAnd(Shr(instr, 21), U32(1023))
        imm == AsI16(BitOr(Shl(imm_high, 5), imm_low))
    IN  CASE opcode = OPCODE_BNE ->
               S_bne \o S_x \o FmtNat(rs1) \o S_cx \o FmtNat(rs2) \o S_c \o FmtInt(imm)
          [] opcode = OPCODE_SW ->
               S_sw \o S_x \o FmtNat(rs2) \o S_c \o FmtInt(imm) \o S_px \o FmtNat(rs1) \o S_p
          [] opcode = OPCODE_BLT ->
               S_blt \o S_x \o FmtNat(rs1) \o S_cx \o FmtNat(rs2) \o S_c \o FmtInt(imm)
          [] OTHER -> S_unknownC \o FmtHex8(instr)

decode_c_type(instr) ==
    LET opcode == Val(BitAnd(instr, U32(63)))
        imm_low == BitAnd(Shr(instr, 6), U32(31))
        rs2 == Val(BitAnd(Shr(instr, 11), U32(31)))
        rs1 == Val(BitAnd(Shr(instr, 16), U32(31)))
        imm_high == BitAnd(Shr(instr, 21), U32(2047))
        imm == AsI16(BitOr(Shl(imm_high, 5), imm_low))
    IN  CASE opcode = OPCODE_BNE ->
               S_bne \o S_x \o FmtNat(rs1) \o S_cx \o FmtNat(rs2) \o S_c \o FmtInt(imm)
          [] opcode = OPCODE_SW ->
               S_sw \o S_x \o FmtNat(rs2) \o S_c \o FmtInt(imm) \o S_px \o FmtNat(rs1) \o S_p
          [] opcode = OPCODE_BLT ->
               S_blt \o S_x \o FmtNat(rs1) \o S_cx \o FmtNat(rs2) \o S_c \o FmtInt(imm)
          [] OTHER -> S_unknownC \o FmtHex8(instr)

\* fault seeded for the halt property: the whole-word test dropped
decode_halt_unchecked(instr) == S_halt

decode_halt(instr) ==
    IF instr = ZeroWord THEN S_halt ELSE S_unknown \o FmtHex8(instr)

\* fault seeded for the dispatch property: the opcode read through a 5-bit mask
decode_instruction_mask5(instr) ==
    LET opcode == Val(BitAnd(instr, U32(31)))
    IN  CASE opcode = OPCODE_HALT -> decode_halt(instr)
          [] opcode \in {OPCODE_ADD, OPCODE_MUL, OPCODE_SUB} -> decode_a_type(instr)
          [] opcode \in {OPCODE_ADDI, OPCODE_LUI, OPCODE_LW, OPCODE_SLLI} ->
               decode_b_type(instr)
          [] opcode \in {OPCODE_BNE, OPCODE_SW, OPCODE_BLT} -> decode_c_type(instr)
          [] OTHER -> S_unknown \o FmtHex8(instr)

decode_instruction(instr) ==
    LET opcode == Val(BitAnd(instr, U32(63)))
    IN  CASE opcode = OPCODE_HALT -> decode_halt(instr)
          [] opcode \in {OPCODE_ADD, OPCODE_MUL, OPCODE_SUB} -> decode_a_type(instr)
          [] opcode \in {OPCODE_ADDI, OPCODE_LUI, OPCODE_LW, OPCODE_SLLI} ->
               decode_b_type(instr)
          [] opcode \in {OPCODE_BNE, OPCODE_SW, OPCODE_BLT} -> decode_c_type(instr)
          [] OTHER -> S_unknown \o FmtHex8(instr)

(***************************************************************************)
(* Text helpers: the str methods the assembler calls.                      *)
(***************************************************************************)
WhiteSpace == {" ", "\t", "\n", "\r"}

RECURSIVE trim_start(_)
trim_start(s) ==
    IF s # <<>> /\ Head(s) \in WhiteSpace THEN trim_start(Tail(s)) ELSE s

RECURSIVE trim_end(_)
trim_end(s) ==
    IF s # <<>> /\ s[Len(s)] \in WhiteSpace
    THEN trim_end(SubSeq(s, 1, Len(s) - 1)) ELSE s

trim(s) == trim_end(trim_start(s))

RECURSIVE trim_end_matches(_, _)
trim_end_matches(s, c) ==
    IF s # <<>> /\ s[Len(s)] = c
    THEN trim_end_matches(SubSeq(s, 1, Len(s) - 1), c) ELSE s

\* str::find of one character: the 1-based index of its first occurrence,
\* 0 for None
find(s, c) ==
    IF \E i \in 1..Len(s) : s[i] = c
    THEN CHOOSE i \in 1..Len(s) : s[i] = c /\ \A j \in 1..(i - 1) : s[j] # c
    ELSE 0

\* s.split(c).next().unwrap(): the text before the first c
split_first(s, c) ==
    IF find(s, c) = 0 THEN s ELSE SubSeq(s, 1, find(s, c) - 1)

starts_with(s, p) == Len(s) >= Len(p) /\ SubSeq(s, 1, Len(p)) = p

RECURSIVE split_whitespace(_)
split_whitespace(s) ==
    LET t == trim_start(s)
        ends == {i \in 1..Len(t) : t[i] \in WhiteSpace}
        n == IF ends = {} THEN Len(t)
             ELSE (CHOOSE i \in ends : \A j \in ends : i <= j) - 1
    IN  IF t = <<>> THEN <<>>
        ELSE <<SubSeq(t, 1, n)>> \o split_whitespace(SubSeq(t, n + 1, Len(t)))

RECURSIVE lines(_)
\* str::lines: split at "\n", a "\r" before it dropped; no final empty line
lines(s) ==
    LET k == find(s, "\n")
        strip(l) == IF l # <<>> /\ l[Len(l)] = "\r"
                    THEN SubSeq(l, 1, Len(l) - 1) ELSE l
    IN  IF s = <<>> THEN <<>>
        ELSE IF k = 0 THEN <<s>>
        ELSE <<strip(SubSeq(s, 1, k - 1))>> \o lines(SubSeq(s, k + 1, Len(s)))

(***************************************************************************)
(* Results: a value, or the panic that ends the run.                       *)
(***************************************************************************)
Ok(v) == [ok |-> TRUE, val |-> v, err |-> "", tok |-> <<>>]

Panic(kind, token) == [ok |-> FALSE, val |-> 0, err |-> kind, tok |-> token]

(***************************************************************************)
(* Integer parsing: str::parse::<u8>, str::parse::<i16> and                *)
(* i32::from_str_radix as the standard library computes them.              *)
(***************************************************************************)
LowerHex == <<"0", "1", "2", "3", "4", "5", "6", "7", "8", "9",
              "a", "b", "c", "d", "e", "f">>

\* char::to_digit: the digit's value, -1 when c is no digit of the radix
to_digit(c, radix) ==
    IF \E d \in 1..radix : HexDigits[d] = c \/ LowerHex[d] = c
    THEN (CHOOSE d \in 1..radix : HexDigits[d] = c \/ LowerHex[d] = c) - 1
    ELSE -1

RECURSIVE parse_digits(_, _, _, _, _, _)
\* the checked multiply-and-add (or subtract) loop over the digits
parse_digits(digits, acc, radix, positive, min, max) ==
    IF digits = <<>> THEN [ok |-> TRUE, val |-> acc]
    ELSE LET d == to_digit(Head(digits), radix)
         IN  IF d < 0 THEN [ok |-> FALSE, val |-> 0]
             ELSE IF positive
             THEN IF acc > (max - d) \div radix THEN [ok |-> FALSE, val |-> 0]
                  ELSE parse_digits(Tail(digits), acc * radix + d, radix,
                                    positive, min, max)
             ELSE IF acc < (min + d + radix - 1) \div radix
                  THEN [ok |-> FALSE, val |-> 0]
                  ELSE parse_digits(Tail(digits), acc * radix - d, radix,
                                    positive, min, max)

from_str_radix(src, radix, signed, min, max) ==
    IF src = <<>> THEN [ok |-> FALSE, val |-> 0]
    ELSE IF Len(src) = 1 /\ src[1] \in {"+", "-"} THEN [ok |-> FALSE, val |-> 0]
    ELSE IF src[1] = "+" THEN parse_digits(Tail(src), 0, radix, TRUE, min, max)
    ELSE IF src[1] = "-" /\ signed
         THEN parse_digits(Tail(src), 0, radix, FALSE, min, max)
    ELSE parse_digits(src, 0, radix, TRUE, min, max)

parse_u8(s) == from_str_radix(s, 10, FALSE, 0, 255)

parse_i16(s) == from_str_radix(s, 10, TRUE, -32768, 32767)

parse_i32_hex(s) == from_str_radix(s, 16, TRUE, -2147483647 - 1, 2147483647)

(***************************************************************************)
(* parse_reg, parse_imm and assemble (main.rs lines 105-234).              *)
(***************************************************************************)
parse_reg(reg) ==
    IF reg = <<>> THEN Panic("str_slice", reg)
    ELSE LET r == parse_u8(Tail(reg))
         IN  IF r.ok THEN Ok(r.val) ELSE Panic("invalid_register", reg)

parse_imm(imm_str0) ==
    LET imm_str == trim(imm_str0)
    IN  IF starts_with(imm_str, <<"0", "x">>) \/ starts_with(imm_str, <<"0", "X">>)
        THEN LET r == parse_i32_hex(SubSeq(imm_str, 3, Len(imm_str)))
             IN  IF ~r.ok THEN Panic("invalid_hex_immediate", imm_str)
                 ELSE IF r.val > 32767 \/ r.val < -32768
                 THEN Ok(I32AsI16(r.val))
                 ELSE Ok(r.val)
        ELSE IF starts_with(imm_str, <<"+">>)
        THEN LET r == parse_i16(Tail(imm_str))
             IN  IF r.ok THEN Ok(r.val)
                 ELSE Panic("invalid_decimal_immediate", imm_str)
        ELSE LET r == parse_i16(imm_str)
             IN  IF r.ok THEN Ok(r.val)
                 ELSE Panic("invalid_decimal_immediate", imm_str)

\* parts[i] of the source (0-based): an index past the end panics
part(parts, i) ==
    IF i + 1 <= Len(parts) THEN Ok(parts[i + 1])
    ELSE Panic("index_out_of_bounds", <<>>)

\* parse_reg of a fetched part, its trailing commas trimmed first when strip
reg_of(p, strip) ==
    IF ~p.ok THEN p
    ELSE IF strip THEN parse_reg(trim_end_matches(p.val, ","))
    ELSE parse_reg(p.val)

\* parse_reg(parts[i].trim_end_matches(','))
reg_comma(parts, i) == reg_of(part(parts, i), TRUE)

\* parse_reg(parts[i])
reg_plain(parts, i) == reg_of(part(parts, i), FALSE)

\* parse_imm of a fetched part
imm_of(p) == IF p.ok THEN parse_imm(p.val) ELSE p

\* parse_imm(parts[i])
imm_plain(parts, i) == imm_of(part(parts, i))

\* the two parses of an `imm(reg)` operand, in the source's order: offset is
\* parse_imm of the text before '(', then the slice between the parentheses
\* is taken (a panic when ')' comes first) and rs1 is parse_reg of it
mem_parsed(offset_reg, open_paren, close_paren, offset, rs1) ==
    IF ~offset.ok THEN offset
    ELSE IF close_paren < open_paren THEN Panic("str_slice", offset_reg)
    ELSE IF ~rs1.ok THEN rs1
    ELSE Ok(<<offset.val, rs1.val>>)

\* the two find calls on the operand, each with its own panic
mem_at(offset_reg, open_paren, close_paren, kind) ==
    IF open_paren = 0 THEN Panic(kind, offset_reg)
    ELSE IF close_paren = 0 THEN Panic(kind, offset_reg)
    ELSE mem_parsed(offset_reg, open_paren, close_paren,
                    parse_imm(SubSeq(offset_reg, 1, open_paren - 1)),
                    parse_reg(SubSeq(offset_reg, open_paren + 1, close_paren - 1)))

mem_of(p, kind) ==
    IF ~p.ok THEN p
    ELSE mem_at(p.val, find(p.val, "("), find(p.val, ")"), kind)

\* the `imm(reg)` operand parts[i] of lw and sw: <<offset, rs1>>
mem_operand(parts, i, kind) == mem_of(part(parts, i), kind)

\* the push of a three-register arm, once its operands are parsed in order
push_rrr(opcode, rd, rs1, rs2) ==
    IF ~rd.ok THEN rd
    ELSE IF ~rs1.ok THEN rs1
    ELSE IF ~rs2.ok THEN rs2
    ELSE Ok(CASE opcode = OPCODE_ADD -> encode_add(rd.val, rs1.val, rs2.val)
              [] opcode = OPCODE_MUL -> encode_mul(rd.val, rs1.val, rs2.val)
              [] opcode = OPCODE_SUB -> encode_sub(rd.val, rs1.val, rs2.val))

\* the three-register arms: add, mul, sub
arm_rrr(parts, opcode) ==
    push_rrr(opcode, reg_comma(parts, 1), reg_comma(parts, 2), reg_plain(parts, 3))

\* the push of a register, register, immediate arm
push_rri(opcode, r1, r2, imm) ==
    IF ~r1.ok THEN r1
    ELSE IF ~r2.ok THEN r2
    ELSE IF ~imm.ok THEN imm
    ELSE Ok(CASE opcode = OPCODE_ADDI -> encode_addi(r1.val, r2.val, imm.val)
              [] opcode = OPCODE_SLLI -> encode_slli(r1.val, r2.val, imm.val)
              [] opcode = OPCODE_BNE -> encode_bne(r1.val, r2.val, imm.val)
              [] opcode = OPCODE_BLT -> encode_blt(r1.val, r2.val, imm.val))

\* the register, register, immediate arms: addi, slli, bne, blt
arm_rri(parts, opcode) ==
    push_rri(opcode, reg_comma(parts, 1), reg_comma(parts, 2), imm_plain(parts, 3))

push_lui(rd, imm) ==
    IF ~rd.ok THEN rd
    ELSE IF ~imm.ok THEN imm
    ELSE Ok(encode_lui(rd.val, imm.val))

arm_lui(parts) == push_lui(reg_comma(parts, 1), imm_plain(parts, 2))

push_lw(rd, m) ==
    IF ~rd.ok THEN rd
    ELSE IF ~m.ok THEN m
    ELSE Ok(encode_lw(rd.val, m.val[2], m.val[1]))

arm_lw(parts) ==
    push_lw(reg_comma(parts, 1), mem_operand(parts, 2, "invalid_lw_format"))

push_sw(rs2, m) ==
    IF ~rs2.ok THEN rs2
    ELSE IF ~m.ok THEN m
    ELSE Ok(encode_sw(m.val[2], rs2.val, m.val[1]))

arm_sw(parts) ==
    push_sw(reg_comma(parts, 1), mem_operand(parts, 2, "invalid_sw_format"))

\* one pass of the loop body on a line that is not empty after the comment
\* is cut and the rest trimmed: the word pushed, or the panic
assemble_line(line) ==
    LET parts == split_whitespace(line)
        m == parts[1]
    IN  CASE m = S_add -> arm_rrr(parts, OPCODE_ADD)
          [] m = S_mul -> arm_rrr(parts, OPCODE_MUL)
          [] m = S_addi -> arm_rri(parts, OPCODE_ADDI)
          [] m = S_bne -> arm_rri(parts, OPCODE_BNE)
          [] m = S_lui -> arm_lui(parts)
          [] m = S_lw -> arm_lw(parts)
          [] m = S_sw -> arm_sw(parts)
          [] m = S_blt -> arm_rri(parts, OPCODE_BLT)
          [] m = S_slli -> arm_rri(parts, OPCODE_SLLI)
          [] m = S_sub -> arm_rrr(parts, OPCODE_SUB)
          [] m = S_halt -> Ok(encode_halt)
          [] OTHER -> Panic("unknown_instruction", m)

RECURSIVE assemble_loop(_, _)

\* fault seeded for the fail-fast property: an invalid line is skipped and
\* the loop goes on
push_word_skipping(w, rest, img) ==
    IF ~w.ok THEN assemble_loop(rest, img)
    ELSE assemble_loop(rest, Append(img, w.val))

\* fault seeded for the order of the image: the word is put in front
push_word_front(w, rest, img) ==
    IF ~w.ok THEN w ELSE assemble_loop(rest, <<w.val>> \o img)

\* the end of one pass of the loop on a non-empty line: the word is pushed
\* and the loop goes on, or the panic ends it (and img with it)
push_word(w, rest, img) ==
    IF ~w.ok THEN w ELSE assemble_loop(rest, Append(img, w.val))

\* one pass on the line as cut at '#' and trimmed
loop_body(line, rest, img) ==
    IF line = <<>> THEN assemble_loop(rest, img)
    ELSE push_word(assemble_line(line), rest, img)

\* the for loop over the lines
assemble_loop(ls, img) ==
    IF ls = <<>> THEN Ok(img)
    ELSE loop_body(trim(split_first(Head(ls), "#")), Tail(ls), img)

\* assemble(input): Ok(img), or the panic of the first line that fails
assemble(input) == assemble_loop(lines(input), <<>>)

(***************************************************************************)
(* The object file (main.rs lines 236-242 and 327-346).  A file is its     *)
(* bytes, each 0..255; NoFile is a path nothing has been written to.       *)
(***************************************************************************)
\* u32::to_le_bytes: the four bytes, least significant first
to_le_bytes(word) ==
    <<BitsVal(word, 0, 8), BitsVal(word, 8, 8), BitsVal(word, 16, 8),
      BitsVal(word, 24, 8)>>

\* u32::from_le_bytes
from_le_bytes(b) ==
    [i \in BitIx |-> (b[(i \div 8) + 1] \div (2^(i % 8))) % 2]

RECURSIVE write_object_file(_)
\* the buffer write_object_file hands to fs::write
write_object_file(ws) ==
    IF ws = <<>> THEN <<>>
    ELSE to_le_bytes(Head(ws)) \o write_object_file(Tail(ws))

RECURSIVE read_loop_strict(_, _, _)
\* fault seeded for the object file round trip: the loop asks for a byte
\* past the word it reads
read_loop_strict(buffer, i, instructions) ==
    IF i + 4 < Len(buffer)
    THEN read_loop_strict(buffer, i + 4,
                          Append(instructions,
                                 from_le_bytes(<<buffer[i + 1], buffer[i + 2],
                                                 buffer[i + 3], buffer[i + 4]>>)))
    ELSE instructions

RECURSIVE read_loop(_, _, _)
\* the while loop of read_binary_file; i is the source's 0-based index
read_loop(buffer, i, instructions) ==
    IF i + 3 < Len(buffer)
    THEN read_loop(buffer, i + 4,
                   Append(instructions,
                          from_le_bytes(<<buffer[i + 1], buffer[i + 2],
                                          buffer[i + 3], buffer[i + 4]>>)))
    ELSE instructions

\* read_binary_file on the bytes of an existing file (the warning printed
\* for a length that is no multiple of 4 changes nothing)
read_binary_file(buffer) == read_loop(buffer, 0, <<>>)

NoFile == [exists |-> FALSE, bytes |-> <<>>]

FileOf(bytes) == [exists |-> TRUE, bytes |-> bytes]

(***************************************************************************)
(* The disassembly listing (main.rs lines 406-415).                        *)
(***************************************************************************)
RECURSIVE FmtHexNat(_)
\* {:X} of a non-negative integer
FmtHexNat(n) ==
    IF n < 16 THEN <<HexDigits[n + 1]>>
    ELSE FmtHexNat(n \div 16) \o <<HexDigits[(n % 16) + 1]>>

RECURSIVE ZeroPad(_, _)
ZeroPad(s, width) == IF Len(s) >= width THEN s ELSE ZeroPad(<<"0">> \o s, width)

\* {:04X} of a usize: at least four upper-case hexadecimal digits
FmtHex4(n) == ZeroPad(FmtHexNat(n), 4)

\* the two comment lines and the empty line the listing starts with; each of
\* the source's CJK characters is one element, written in pinyin
S_header ==
    <<"#", " ", "fan", "hui", "bian", "jie", "guo", "\n",
      "#", " ", "ge", "shi", ":", " ", "[", "di", "zhi", "]", " ",
      "[", "shi", "liu", "jin", "zhi", "biao", "shi", "]", " ",
      "[", "hui", "bian", "zhi", "ling", "]", "\n", "\n">>

\* fault seeded for the listing: the index printed where the address belongs
listing_line_index(i, instr) ==
    FmtHex4(i) \o <<":", " ", " ">> \o FmtHex8(instr) \o <<" ", " ">>
      \o decode_instruction(instr) \o <<"\n">>

\* format!("{:04X}:  {:08X}  {}\n", i * 4, instr, disasm)
listing_line(i, instr) ==
    FmtHex4(i * 4) \o <<":", " ", " ">> \o FmtHex8(instr) \o <<" ", " ">>
      \o decode_instruction(instr) \o <<"\n">>

RECURSIVE listing_loop(_, _, _)
\* the for loop over instructions.iter().enumerate(), from index i on
listing_loop(instructions, i, output) ==
    IF i >= Len(instructions) THEN output
    ELSE listing_loop(instructions, i + 1,
                      output \o listing_line(i, instructions[i + 1]))

\* the text run_disassembler writes for the instructions read
listing(instructions) == listing_loop(instructions, 0, S_header)

(***************************************************************************)
(* The inputs drawn.  A request names a mnemonic, up to three register     *)
(* numerals and an immediate token; its line is the text handed to         *)
(* assemble, its call is the encoder function invoked directly (as the     *)
(* tests do).  A loaded word is handed to decode_instruction as is.        *)
(***************************************************************************)
Mnemonics == {"add", "mul", "sub", "addi", "slli", "lui", "lw", "sw",
              "bne", "blt", "halt"}

ATypes == {"add", "mul", "sub"}

RegVals == (0..RegSpan) \cup {16} \cup ((31 - RegSpan)..31)

\* immediates inside the signed 16-bit range
ImmVals ==
    ((0 - ImmSpan)..ImmSpan)
    \cup ((-32768)..(ImmSpan - 32768))
    \cup ((32767 - ImmSpan)..32767)
    \cup {10, -8, 16, 12, 20, -16, -28, -44, 42, 1024, 31, 32, -32, -33, 8, 4}

\* decimal values outside the signed 16-bit range
OverVals ==
    (32768..(32767 + OverSpan))
    \cup ((-32768 - OverSpan)..(-32769))
    \cup {40000, 65535 + OverSpan, 65546, -65528, 131071}

\* a decimal token, as written for the value v
DecTok(v) ==
    [txt |-> FmtInt(v), form |-> "dec",
     wide |-> IF v \in (-32768)..32767 THEN 0 ELSE 1,
     val16 |-> I32AsI16(v)]

\* the same with a leading '+'
PlusTok(v) ==
    [txt |-> <<"+">> \o FmtNat(v), form |-> "plus",
     wide |-> IF v \in 0..32767 THEN 0 ELSE 1,
     val16 |-> I32AsI16(v)]

\* a hexadecimal token: wide is 0 when the value is inside the signed 16-bit
\* range, 1 when it is outside it and inside the signed 32-bit range, 2 when
\* it is outside the signed 32-bit range; val16 is its low 16 bits as signed
HexTok(prefix, digits, w, low16) ==
    [txt |-> prefix \o digits, form |-> "hex", wide |-> w, val16 |-> low16]

HexToks ==
    { HexTok(<<"0", "x">>, <<"1", "0">>, 0, 16),
      HexTok(<<"0", "X">>, <<"7", "f", "F", "F">>, 0, 32767),
      HexTok(<<"0", "x">>, <<"8", "0", "0", "0">>, 1, -32768),
      HexTok(<<"0", "x">>, <<"F", "F", "F", "F">>, 1, -1),
      HexTok(<<"0", "X">>, <<"1", "0", "0", "0", "0">>, 1, 0),
      HexTok(<<"0", "x">>, <<"1", "2", "3", "4", "5">>, 1, 9029),
      HexTok(<<"0", "x">>, <<"1", "F", "F", "F", "8">>, 1, -8),
      HexTok(<<"0", "x">>, <<"1", "8", "0", "0", "a">>, 1, -32758),
      HexTok(<<"0", "x">>, <<"7", "F", "F", "F", "F", "F", "F", "F">>, 1, -1),
      HexTok(<<"0", "x">>, <<"8", "0", "0", "0", "0", "0", "0", "0">>, 2, 0),
      HexTok(<<"0", "x">>, <<"F", "F", "F", "F", "F", "F", "F", "8">>, 2, -8),
      HexTok(<<"0", "x">>, <<"1", "0", "0", "0", "0", "0", "0", "0", "A">>, 2, 10) }

ImmToks ==
    {DecTok(v) : v \in ImmVals \cup OverVals}
    \cup {PlusTok(v) : v \in {0, 4, 32767} \cup {v \in OverVals : v > 0}}
    \cup HexToks

NoTok == [txt |-> <<>>, form |-> "none", wide |-> 0, val16 |-> 0]

\* register numerals past the 5-bit field that fit the u8 parse_reg returns
WideU8 == {32, 33, 63, 128, 255}

\* register numerals past the 5-bit field, as written in a source line
WideRegs == WideU8 \cup {256, 300}

\* ways of writing a line's first or last register token that are not `x`
\* followed by a decimal numeral
RegForms == {"yreg", "digitreg", "alphareg", "negreg", "ylast"}

Req(mn, a, b, c, tok, deco) ==
    [mn |-> mn, a |-> a, b |-> b, c |-> c, tok |-> tok, deco |-> deco]

\* the lines of the round-trip test and of the documented scenarios
ScenarioReqs ==
    { Req("add", 1, 2, 3, NoTok, "plain"),
      Req("addi", 3, 0, 0, DecTok(42), "plain"),
      Req("addi", 1, 0, 0, DecTok(10), "plain"),
      Req("mul", 4, 5, 6, NoTok, "plain"),
      Req("bne", 7, 8, 0, DecTok(-16), "plain"),
      Req("bne", 3, 2, 0, DecTok(-8), "plain"),
      Req("bne", 3, 8, 0, DecTok(-28), "plain"),
      Req("lw", 9, 10, 0, DecTok(8), "plain"),
      Req("lui", 13, 0, 0, DecTok(1024), "plain"),
      Req("sw", 11, 12, 0, DecTok(12), "plain"),
      Req("sw", 6, 4, 0, DecTok(0), "plain"),
      Req("sw", 5, 4, 0, PlusTok(4), "plain"),
      Req("blt", 14, 15, 0, DecTok(20), "plain"),
      Req("blt", 5, 6, 0, DecTok(12), "plain") }

\* lines with a register numeral past 31 in one or more positions
WideRegReqs ==
    {Req(m, a, b, c, NoTok, "plain") : m \in ATypes, a \in WideRegs \cup {1},
                                       b \in WideRegs \cup {2},
                                       c \in WideRegs \cup {3}}
    \cup {Req(m, a, b, 0, DecTok(v), "plain") :
            m \in {"addi", "slli", "lw", "sw", "bne", "blt"},
            a \in WideRegs \cup {1}, b \in WideRegs \cup {2}, v \in {0, -8}}
    \cup {Req("lui", a, 0, 0, DecTok(v), "plain") : a \in WideRegs, v \in {0, -8}}

\* lines whose first or last register token is written in another form
RegFormReqs ==
    {Req(m, a, 2, 3, NoTok, d) : m \in ATypes, a \in {1, 31}, d \in RegForms}
    \cup {Req(m, a, 2, 0, DecTok(4), d) :
            m \in {"addi", "slli", "lw", "sw", "bne", "blt"},
            a \in {1, 31}, d \in RegForms}
    \cup {Req("lui", a, 0, 0, DecTok(4), d) : a \in {1, 31}, d \in RegForms}

TextReqs ==
    {Req(m, a, b, c, NoTok, "plain") : m \in ATypes, a \in RegVals,
                                       b \in RegVals, c \in RegVals}
    \cup WideRegReqs
    \cup RegFormReqs
    \cup {Req(m, a, b, 0, t, "plain") :
            m \in {"addi", "slli", "lw", "sw", "bne", "blt"},
            a \in RegVals, b \in RegVals, t \in ImmToks}
    \cup {Req("lui", a, 0, 0, t, "plain") : a \in RegVals, t \in ImmToks}
    \cup {Req("halt", 0, 0, 0, NoTok, d) : d \in {"plain", "comment", "indent"}}
    \cup ScenarioReqs

\* direct calls of the encoders, with u8 and i16 arguments
CallReqs ==
    {Req(m, a, b, c, NoTok, "plain") : m \in ATypes, a \in RegVals \cup WideU8,
                                       b \in RegVals \cup WideU8,
                                       c \in RegVals \cup WideU8}
    \cup {Req(m, a, b, 0, DecTok(v), "plain") :
            m \in {"addi", "slli", "lw", "sw", "bne", "blt"},
            a \in RegVals, b \in RegVals, v \in ImmVals}
    \cup {Req("lui", a, 0, 0, DecTok(v), "plain") : a \in RegVals, v \in ImmVals}
    \cup {Req("halt", 0, 0, 0, NoTok, "plain")}
    \cup {r \in ScenarioReqs : r.tok.form # "plus"}

MnText(mn) ==
    CASE mn = "add" -> S_add [] mn = "mul" -> S_mul [] mn = "sub" -> S_sub
      [] mn = "addi" -> S_addi [] mn = "slli" -> S_slli [] mn = "lui" -> S_lui
      [] mn = "lw" -> S_lw [] mn = "sw" -> S_sw [] mn = "bne" -> S_bne
      [] mn = "blt" -> S_blt [] mn = "halt" -> S_halt

\* the source line of a request, with the immediate written as imm
LineWith(r, imm) ==
    CASE r.mn \in ATypes ->
           MnText(r.mn) \o S_x \o FmtNat(r.a) \o S_cx \o FmtNat(r.b)
             \o S_cx \o FmtNat(r.c)
      [] r.mn \in {"addi", "slli", "bne", "blt"} ->
           MnText(r.mn) \o S_x \o FmtNat(r.a) \o S_cx \o FmtNat(r.b)
             \o S_c \o imm
      [] r.mn = "lui" -> S_lui \o S_x \o FmtNat(r.a) \o S_c \o imm
      [] r.mn \in {"lw", "sw"} ->
           MnText(r.mn) \o S_x \o FmtNat(r.a) \o S_c \o imm
             \o S_px \o FmtNat(r.b) \o S_p
      [] r.mn = "halt" -> S_halt

\* the index of the last 'x' of a line that has one
LastX(l) ==
    CHOOSE i \in 1..Len(l) : l[i] = "x" /\ \A j \in (i + 1)..Len(l) : l[j] # "x"

\* the line with its k-th character replaced by the text new
Rewrite(l, k, new) == SubSeq(l, 1, k - 1) \o new \o SubSeq(l, k + 1, Len(l))

Decorate(l, deco) ==
    CASE deco = "plain" -> l
      [] deco = "comment" -> l \o <<" ", "#", " ", "e", "n", "d", "\n">>
      [] deco = "indent" -> <<"\t", " ">> \o l \o <<" ", "\r", "\n">>
      [] deco = "yreg" -> Rewrite(l, find(l, "x"), <<"y">>)
      [] deco = "digitreg" -> Rewrite(l, find(l, "x"), <<"7">>)
      [] deco = "alphareg" -> Rewrite(l, find(l, "x"), <<"x", "a">>)
      [] deco = "negreg" -> Rewrite(l, find(l, "x"), <<"x", "-">>)
      [] deco = "ylast" -> Rewrite(l, LastX(l), <<"y">>)

Render(r) == Decorate(LineWith(r, r.tok.txt), r.deco)

\* the encoder function a call request invokes
CallEncoder(r) ==
    CASE r.mn = "add" -> encode_add(r.a, r.b, r.c)
      [] r.mn = "mul" -> encode_mul(r.a, r.b, r.c)
      [] r.mn = "sub" -> encode_sub(r.a, r.b, r.c)
      [] r.mn = "addi" -> encode_addi(r.a, r.b, r.tok.val16)
      [] r.mn = "slli" -> encode_slli(r.a, r.b, r.tok.val16)
      [] r.mn = "lui" -> encode_lui(r.a, r.tok.val16)
      [] r.mn = "lw" -> encode_lw(r.a, r.b, r.tok.val16)
      [] r.mn = "sw" -> encode_sw(r.a, r.b, r.tok.val16)
      [] r.mn = "bne" -> encode_bne(r.a, r.b, r.tok.val16)
      [] r.mn = "blt" -> encode_blt(r.a, r.b, r.tok.val16)
      [] r.mn = "halt" -> encode_halt

\* the word with the given contents of bits 31:21, 20:16, 15:11, 10:6, 5:0
MkWord(h, a, b, c, op) ==
    [i \in BitIx |->
       IF i >= 21 THEN (h \div (2^(i - 21))) % 2
       ELSE IF i >= 16 THEN (a \div (2^(i - 16))) % 2
       ELSE IF i >= 11 THEN (b \div (2^(i - 11))) % 2
       ELSE IF i >= 6 THEN (c \div (2^(i - 6))) % 2
       ELSE (op \div (2^i)) % 2]

HighVals == {0, 1, 1024, 2047}

LowVals == {0, 1, 24, 31}

\* the words loaded for decoding: every opcode 0..63
WordInputs ==
    {MkWord(h, a, b, c, op) : h \in HighVals, a \in RegVals, b \in RegVals,
                              c \in LowVals, op \in 0..10}
    \cup {MkWord(h, a, a, c, op) : h \in HighVals, a \in RegVals,
                                   c \in LowVals, op \in 11..63}
    \cup { MkWord(0, 10, 0, 1, 2), MkWord(0, 10, 0, 0, 2),
           MkWord(0, 3, 2, 1, 1), MkWord(0, 5, 4, 3, 4),
           MkWord(1, 10, 0, 2, 5), MkWord(0, 4, 1, 3, 6),
           MkWord(2047, 2, 1, 24, 3), MkWord(0, 1, 2, 8, 7),
           MkWord(0, 4, 5, 16, 8), MkWord(0, 3, 2, 1, 9),
           MkWord(0, 5, 4, 3, 10) }

L_addi_x1_x0_10 ==
    <<"a", "d", "d", "i", " ", "x", "1", ",", " ", "x", "0", ",", " ", "1", "0">>

L_bne_x3_x2_m8 ==
    <<"b", "n", "e", " ", "x", "3", ",", " ", "x", "2", ",", " ", "-", "8">>

\* a line of a source program: its text and what it is, "word" for an
\* instruction, "none" for a blank or comment-only line, "bad" for a line
\* that is no instruction of the language
Line(txt, kind) == [txt |-> txt, kind |-> kind]

WordLines ==
    { Line(L_addi_x1_x0_10, "word"),
      Line(Render(Req("add", 1, 2, 3, NoTok, "plain"))
             \o <<" ", "#", " ", "s", "u", "m">>, "word"),
      Line(<<"\t">> \o S_halt \o <<" ", "\r">>, "word"),
      Line(L_bne_x3_x2_m8, "word") }

NoneLines ==
    { Line(<<>>, "none"),
      Line(<<" ", "\t", " ">>, "none"),
      Line(<<"#", " ">> \o Render(Req("add", 1, 2, 3, NoTok, "plain")), "none") }

BadLines ==
    { Line(<<"n", "o", "p">>, "bad"),
      Line(Render(Req("add", 1, 2, 3, NoTok, "alphareg")), "bad"),
      Line(L_addi_x1_x0_10 \o <<"z">>, "bad"),
      Line(<<"l", "w", " ", "x", "1", ",", " ", "4", "x", "2">>, "bad") }

ProgLines == WordLines \cup NoneLines \cup BadLines

\* the source programs drawn: up to MaxLines lines
Programs == UNION {[1..n -> ProgLines] : n \in 0..MaxLines}

RECURSIVE JoinLines(_)
\* the text of a program: its lines, a "\n" after each but the last
JoinLines(p) ==
    IF p = <<>> THEN <<>>
    ELSE IF Len(p) = 1 THEN p[1].txt
    ELSE p[1].txt \o <<"\n">> \o JoinLines(Tail(p))

\* the words object files are built from: halt, an add, the all-ones word,
\* a bne, a word of opcode 0 that is not halt, an addi
ImageWords ==
    { ZeroWord, MkWord(0, 3, 2, 1, 1), MkWord(2047, 31, 31, 31, 63),
      MkWord(2047, 2, 1, 24, 3), MkWord(1, 0, 0, 0, 0), MkWord(0, 10, 0, 1, 2) }

Images == UNION {[1..n -> ImageWords] : n \in 0..MaxLines}

\* the bytes of a partial word at the end of a file
TrailingBytes == {<<1>>, <<255, 0>>, <<0, 0, 128>>}

(***************************************************************************)
(* The state machine.                                                      *)
(***************************************************************************)
VARIABLES
    via,    \* "text": assemble(input); "call": an encoder call; "word": a
            \* loaded word; "asm": run_assembler on a program; "image": an
            \* object file written from given words
    req,    \* the request drawn (only "text" and "call" runs have one)
    prog,   \* the lines of the source program of an "asm" run
    input,  \* the source text handed to assemble
    pc,     \* "start", "assembled", "encoded", "loaded", "panicked", "decoded",
            \* "written", "appended", "disassembled", "failed"
    img,    \* the words produced or loaded
    err,    \* the panic that ended the run, if any
    text,   \* the decoded line of each word of img
    obj,    \* the object file
    instructions,  \* what read_binary_file returned to run_disassembler
    output  \* the listing file run_disassembler writes

vars == <<via, req, prog, input, pc, img, err, text, obj, instructions, output>>

NoErr == [kind |-> "", tok |-> <<>>]

NoReq == Req("halt", 0, 0, 0, NoTok, "plain")

Init ==
    /\ err = NoErr
    /\ text = <<>>
    /\ obj = NoFile
    /\ instructions = <<>>
    /\ output = NoFile
    /\ \/ /\ via = "text"
          /\ req \in TextReqs
          /\ prog = <<>>
          /\ input = Render(req)
          /\ pc = "start"
          /\ img = <<>>
       \/ /\ via = "call"
          /\ req \in CallReqs
          /\ prog = <<>>
          /\ input = <<>>
          /\ pc = "start"
          /\ img = <<>>
       \/ /\ via = "word"
          /\ req = NoReq
          /\ prog = <<>>
          /\ input = <<>>
          /\ pc = "loaded"
          /\ \E w \in WordInputs : img = <<w>>
       \/ /\ via = "asm"
          /\ req = NoReq
          /\ prog \in Programs
          /\ input = JoinLines(prog)
          /\ pc = "start"
          /\ img = <<>>
       \/ /\ via = "image"
          /\ req = NoReq
          /\ prog = <<>>
          /\ input = <<>>
          /\ pc = "start"
          /\ img \in Images

\* let img = assemble(&input): the image, or the panic that ends the process
Assemble ==
    /\ pc = "start"
    /\ via = "text"
    /\ LET r == assemble(input)
       IN  IF r.ok
           THEN /\ img' = r.val
                /\ pc' = "assembled"
                /\ err' = NoErr
           ELSE /\ img' = <<>>
                /\ pc' = "panicked"
                /\ err' = [kind |-> r.err, tok |-> r.tok]
    /\ UNCHANGED <<via, req, prog, input, text, obj, instructions, output>>

\* a direct call of encode_add .. encode_halt
Encode ==
    /\ pc = "start"
    /\ via = "call"
    /\ img' = <<CallEncoder(req)>>
    /\ pc' = "encoded"
    /\ UNCHANGED <<via, req, prog, input, err, text, obj, instructions, output>>

\* decode_instruction on every word of img, in order
Decode ==
    /\ pc \in {"assembled", "encoded", "loaded"}
    /\ text' = [i \in 1..Len(img) |-> decode_instruction(img[i])]
    /\ pc' = "decoded"
    /\ UNCHANGED <<via, req, prog, input, img, err, obj, instructions, output>>

\* run_assembler: the source is read and assembled and the image written to
\* the object file; a panic of assemble ends the process before the write
RunAssembler ==
    /\ pc = "start"
    /\ via = "asm"
    /\ LET r == assemble(input)
       IN  IF r.ok
           THEN /\ img' = r.val
                /\ obj' = FileOf(write_object_file(r.val))
                /\ pc' = "written"
                /\ err' = NoErr
           ELSE /\ img' = <<>>
                /\ obj' = obj
                /\ pc' = "panicked"
                /\ err' = [kind |-> r.err, tok |-> r.tok]
    /\ UNCHANGED <<via, req, prog, input, text, instructions, output>>

\* write_object_file(&img, path) on given words
WriteObject ==
    /\ pc = "start"
    /\ via = "image"
    /\ obj' = FileOf(write_object_file(img))
    /\ pc' = "written"
    /\ UNCHANGED <<via, req, prog, input, img, err, text, instructions, output>>

\* the environment leaves a partial word at the end of the object file
AppendTrailing ==
    /\ pc = "written"
    /\ \E extra \in TrailingBytes : obj' = FileOf(obj.bytes \o extra)
    /\ pc' = "appended"
    /\ UNCHANGED <<via, req, prog, input, img, err, text, instructions, output>>

\* run_disassembler: read_binary_file, then the listing written; a missing
\* object file is the Err the function returns, with nothing written
RunDisassembler ==
    /\ pc \in {"written", "appended", "panicked"}
    /\ via \in {"asm", "image"}
    /\ IF obj.exists
       THEN /\ instructions' = read_binary_file(obj.bytes)
            /\ output' = FileOf(listing(read_binary_file(obj.bytes)))
            /\ pc' = "disassembled"
       ELSE /\ UNCHANGED <<instructions, output>>
            /\ pc' = "failed"
    /\ UNCHANGED <<via, req, prog, input, img, err, text, obj>>

Next ==
    \/ Assemble
    \/ Encode
    \/ Decode
    \/ RunAssembler
    \/ WriteObject
    \/ AppendTrailing
    \/ RunDisassembler

Spec == Init /\ [][Next]_vars

(***************************************************************************)
(* What the claims speak of.                                               *)
(***************************************************************************)
\* the number in the n bits of word w from bit lo upward
Field(w, lo, n) == BitsVal(w, lo, n)

\* a 16-bit pattern read as a signed number
Signed16(u) == IF u >= 32768 THEN u - 65536 ELSE u

\* the 16-bit immediate pattern a word carries under its mnemonic's format
ImmField(mn, w) ==
    IF mn \in {"sw", "bne", "blt"}
    THEN Field(w, 21, 11) * 32 + Field(w, 6, 5)
    ELSE Field(w, 16, 16)

\* the word written as eight hexadecimal digits
WordOfHex(digits) ==
    [i \in BitIx |-> (to_digit(digits[8 - (i \div 4)], 16) \div (2^(i % 4))) % 2]

\* the request's line with its immediate in decimal and no leading '+'
Canonical(r) == LineWith(r, FmtInt(r.tok.val16))

\* t is the unknown-instruction text carrying word w as 8 hexadecimal digits
IsUnknownOf(t, w) ==
    /\ Len(t) = Len(S_unknown) + 8
    /\ SubSeq(t, 1, Len(S_unknown)) = S_unknown
    /\ \A k \in 1..8 :
         /\ t[Len(S_unknown) + k] \in {HexDigits[d] : d \in 1..16}
         /\ to_digit(t[Len(S_unknown) + k], 16) = Field(w, 4 * (8 - k), 4)

\* the mnemonic a decoded line starts with
PrintedMnemonic(t) == split_first(t, " ")

\* the immediate a decoded line prints
PrintedImm(t) ==
    LET ps == split_whitespace(t)
    IN  split_first(ps[Len(ps)], "(")

\* the opcode table of the data model, opcodes 1..10
OpcodeTable ==
    <<S_add, S_addi, S_bne, S_mul, S_lui, S_lw, S_sw, S_blt, S_slli, S_sub>>

InRangeRegs(r) == r.a \in 0..31 /\ r.b \in 0..31 /\ r.c \in 0..31

(***************************************************************************)
(* C1: round trip over the whole instruction set.  For every well-formed  *)
(* line (any mnemonic, registers 0..31, immediate inside the signed 16-bit *)
(* range) assemble yields exactly one word and decode_instruction of it is *)
(* the line again, the immediate printed in decimal without a '+'.         *)
(***************************************************************************)
C1_RoundTrip ==
    (via = "text" /\ req.deco = "plain" /\ req.tok.wide = 0 /\ InRangeRegs(req)) =>
        /\ pc # "panicked"
        /\ pc \in {"assembled", "decoded"} => Len(img) = 1
        /\ pc = "decoded" => text = <<Canonical(req)>>

(***************************************************************************)
(* C2: field assignment of the two branch encoders.  encode_bne puts rs1  *)
(* in bits 20:16 and rs2 in bits 15:11, encode_blt puts rs2 in bits 20:16  *)
(* and rs1 in bits 15:11; both put offset bits 15:5 in bits 31:21, offset  *)
(* bits 4:0 in bits 10:6 and the opcode in bits 5:0.                       *)
(***************************************************************************)
C2_BranchFields ==
    (via = "call" /\ req.mn \in {"bne", "blt"} /\ InRangeRegs(req)
       /\ pc \in {"encoded", "decoded"}) =>
        LET w == img[1]
            off == req.tok.val16 % 65536
        IN  /\ Len(img) = 1
            /\ req.mn = "bne" =>
                 /\ Field(w, 16, 5) = req.a
                 /\ Field(w, 11, 5) = req.b
                 /\ Field(w, 0, 6) = OPCODE_BNE
            /\ req.mn = "blt" =>
                 /\ Field(w, 16, 5) = req.b
                 /\ Field(w, 11, 5) = req.a
                 /\ Field(w, 0, 6) = OPCODE_BLT
            /\ Field(w, 21, 11) = off \div 32
            /\ Field(w, 6, 5) = off % 32

\* a blt call with distinct registers and a negative offset has been encoded
C2_Witness ==
    /\ via = "call" /\ pc = "encoded" /\ req.mn = "blt"
    /\ req.a = 31 /\ req.b = 1 /\ req.tok.val16 = -33

(***************************************************************************)
(* C3: field assignment of sw.  For every line `sw xV, off(xB)` the        *)
(* assembled word has the base register B in bits 20:16 and the value      *)
(* register V in bits 15:11.                                               *)
(***************************************************************************)
C3_SwFields ==
    (via = "text" /\ req.mn = "sw" /\ req.tok.wide = 0 /\ InRangeRegs(req)
       /\ pc \in {"assembled", "decoded"}) =>
        /\ Len(img) = 1
        /\ Field(img[1], 16, 5) = req.b
        /\ Field(img[1], 11, 5) = req.a

(***************************************************************************)
(* C4: the decoder mirrors the operand table for C-type words.  For opcode *)
(* bne the first printed register is bits 20:16 and the second bits 15:11; *)
(* for sw the printed value register is bits 15:11 and the printed base    *)
(* register bits 20:16; for blt the first printed register is bits 15:11   *)
(* and the second bits 20:16; so each printed operand order is the text    *)
(* order the encoder consumed.                                             *)
(***************************************************************************)
C4_DecoderTable ==
    /\ (pc = "decoded" /\ via = "word") =>
         LET w == img[1]
             op == Field(w, 0, 6)
             f20 == FmtNat(Field(w, 16, 5))
             f15 == FmtNat(Field(w, 11, 5))
             imm == FmtInt(Signed16(ImmField("bne", w)))
         IN  /\ op = OPCODE_BNE =>
                  text[1] = S_bne \o S_x \o f20 \o S_cx \o f15 \o S_c \o imm
             /\ op = OPCODE_SW =>
                  text[1] = S_sw \o S_x \o f15 \o S_c \o imm \o S_px \o f20 \o S_p
             /\ op = OPCODE_BLT =>
                  text[1] = S_blt \o S_x \o f15 \o S_cx \o f20 \o S_c \o imm
    /\ (pc = "decoded" /\ via = "text" /\ req.mn \in {"bne", "sw", "blt"}
          /\ req.deco = "plain" /\ req.tok.wide = 0 /\ InRangeRegs(req)) =>
         text = <<Canonical(req)>>

(***************************************************************************)
(* C5: halt.  Assembling `halt` always yields the word 0, decoding 0       *)
(* yields `halt`, and every other word whose low 6 bits are 0 decodes to   *)
(* the unknown-instruction text, never to `halt`.                          *)
(***************************************************************************)
C5_Halt ==
    /\ (via \in {"text", "call"} /\ req.mn = "halt" /\ pc # "start") =>
         /\ pc # "panicked"
         /\ Len(img) = 1
         /\ \A i \in BitIx : img[1][i] = 0
    /\ pc = "decoded" =>
         \A k \in 1..Len(img) :
           Field(img[k], 0, 6) = 0 =>
             IF \A i \in BitIx : img[k][i] = 0
             THEN text[k] = S_halt
             ELSE IsUnknownOf(text[k], img[k]) /\ text[k] # S_halt

\* a word with opcode bits 0 and other bits set has been decoded
C5_Witness ==
    /\ pc = "decoded" /\ via = "word"
    /\ Field(img[1], 0, 6) = 0
    /\ Field(img[1], 21, 11) = 2047
    /\ Field(img[1], 6, 5) = 1

(***************************************************************************)
(* C6: decoding dispatches on the low 6 bits alone and is total.  Low 6    *)
(* bits in 1..10 give the mnemonic of the opcode table whatever the other  *)
(* 26 bits are, low 6 bits in 11..63 give the unknown-instruction text     *)
(* with the raw word as 8 hexadecimal digits, and decode_instruction       *)
(* yields a text for every word.                                           *)
(***************************************************************************)
C6_Dispatch ==
    /\ pc \in {"loaded", "assembled", "encoded"} => ENABLED Decode
    /\ pc = "decoded" =>
         /\ Len(text) = Len(img)
         /\ \A k \in 1..Len(img) :
              LET op == Field(img[k], 0, 6)
              IN  /\ op \in 1..10 => PrintedMnemonic(text[k]) = OpcodeTable[op]
                  /\ op \in 11..63 => IsUnknownOf(text[k], img[k])

\* a word of an unassigned opcode whose low 5 bits are an assigned one, with
\* other bits set, has been decoded
C6_Witness ==
    /\ pc = "decoded" /\ via = "word"
    /\ Field(img[1], 0, 6) = 35
    /\ Field(img[1], 21, 11) = 2047
    /\ Field(img[1], 16, 5) = 31

(***************************************************************************)
(* C7: the addi scenario as the specification states it.  Assembling       *)
(* `addi x1, x0, 10` yields the word 0x000A0002, and disassembling         *)
(* 0x000A0002 prints `addi x1, x0, 10`.                                    *)
(***************************************************************************)
C7_Original ==
    LET w == WordOfHex(<<"0", "0", "0", "A", "0", "0", "0", "2">>)
    IN  /\ (via = "text" /\ input = L_addi_x1_x0_10
              /\ pc \in {"assembled", "decoded"}) => img = <<w>>
        /\ (pc = "decoded" /\ img = <<w>>) => text = <<L_addi_x1_x0_10>>

(***************************************************************************)
(* C7 as amended: assembling `addi x1, x0, 10` yields the word 0x000A0042  *)
(* (rd = 1 sits in bits 10:6), and disassembling 0x000A0042 prints         *)
(* `addi x1, x0, 10`.                                                      *)
(***************************************************************************)
C7_Amended ==
    LET w == WordOfHex(<<"0", "0", "0", "A", "0", "0", "4", "2">>)
    IN  /\ (via = "text" /\ input = L_addi_x1_x0_10 /\ pc # "start") =>
              pc # "panicked" /\ img = <<w>>
        /\ (pc = "decoded" /\ img = <<w>>) => text = <<L_addi_x1_x0_10>>

\* the line has been assembled and its word decoded
C7_Witness ==
    /\ via = "text" /\ input = L_addi_x1_x0_10 /\ pc = "decoded"
    /\ Len(img) = 1

(***************************************************************************)
(* C8: the bne scenario as the specification states it.  Assembling        *)
(* `bne x3, x2, -8` yields the word whose bit groups 31:21, 20:16, 15:11,  *)
(* 10:6, 5:0 are 11111111111_00010_00011_11000_000011.                     *)
(***************************************************************************)
C8_Original ==
    (via = "text" /\ input = L_bne_x3_x2_m8 /\ pc \in {"assembled", "decoded"}) =>
        /\ Len(img) = 1
        /\ <<Field(img[1], 21, 11), Field(img[1], 16, 5), Field(img[1], 11, 5),
             Field(img[1], 6, 5), Field(img[1], 0, 6)>> = <<2047, 2, 3, 24, 3>>

(***************************************************************************)
(* C8 as amended: assembling `bne x3, x2, -8` yields the word whose bit    *)
(* groups are 11111111111_00011_00010_11000_000011 (the first operand x3   *)
(* in bits 20:16, the second x2 in bits 15:11).                            *)
(***************************************************************************)
C8_Amended ==
    (via = "text" /\ input = L_bne_x3_x2_m8 /\ pc # "start") =>
        /\ pc # "panicked"
        /\ Len(img) = 1
        /\ <<Field(img[1], 21, 11), Field(img[1], 16, 5), Field(img[1], 11, 5),
             Field(img[1], 6, 5), Field(img[1], 0, 6)>> = <<2047, 3, 2, 24, 3>>

\* the line has been assembled
C8_Witness ==
    via = "text" /\ input = L_bne_x3_x2_m8 /\ pc = "assembled" /\ Len(img) = 1

(***************************************************************************)
(* C9: out-of-range decimal immediates truncate instead of failing.  For   *)
(* every mnemonic with an immediate and every decimal token (with or       *)
(* without '+') whose value is outside -32768..32767, assembling succeeds  *)
(* and the immediate field holds the value modulo 2^16.                    *)
(***************************************************************************)
C9_DecimalTruncates ==
    (via = "text" /\ req.tok.form \in {"dec", "plus"} /\ req.tok.wide = 1
       /\ pc # "start") =>
        /\ pc # "panicked"
        /\ Len(img) = 1
        /\ ImmField(req.mn, img[1]) = req.tok.val16 % 65536

(***************************************************************************)
(* C10: hexadecimal truncation.  For every 0x/0X immediate whose value is  *)
(* wider than the signed 16-bit range, parse_imm does not fail and returns *)
(* the low 16 bits read as signed two's complement, and the word encoded   *)
(* from it decodes to that signed value.                                   *)
(***************************************************************************)
C10_HexTruncates ==
    (via = "text" /\ req.tok.form = "hex" /\ req.tok.wide >= 1 /\ pc # "start") =>
        /\ pc # "panicked"
        /\ Len(img) = 1
        /\ ImmField(req.mn, img[1]) = req.tok.val16 % 65536
        /\ pc = "decoded" => PrintedImm(text[1]) = FmtInt(req.tok.val16)

\* the request with every register numeral reduced modulo 32
MaskedRegs(r) == [r EXCEPT !.a = r.a % 32, !.b = r.b % 32, !.c = r.c % 32]

(***************************************************************************)
(* C11: out-of-range register numerals are accepted and masked.  For every *)
(* mnemonic and every register token xN with N > 31, assembling the line   *)
(* succeeds and yields exactly the word obtained with x(N mod 32) in that  *)
(* position, so no bit outside that register's 5-bit field changes.        *)
(***************************************************************************)
C11_RegistersMasked ==
    (via = "text" /\ req.deco = "plain" /\ req.tok.wide = 0
       /\ ~InRangeRegs(req) /\ pc # "start") =>
        /\ pc # "panicked"
        /\ img = assemble(Render(MaskedRegs(req))).val

\* the token a line written in one of the RegForms hands to parse_reg
OddRegToken(r) ==
    LET last == IF r.mn \in ATypes THEN r.c
                ELSE IF r.mn = "lui" THEN r.a ELSE r.b
    IN  CASE r.deco = "yreg" -> <<"y">> \o FmtNat(r.a)
          [] r.deco = "digitreg" -> <<"7">> \o FmtNat(r.a)
          [] r.deco = "alphareg" -> <<"x", "a">> \o FmtNat(r.a)
          [] r.deco = "negreg" -> <<"x", "-">> \o FmtNat(r.a)
          [] r.deco = "ylast" -> <<"y">> \o FmtNat(last)

(***************************************************************************)
(* C12: register tokens are validated.  parse_reg accepts a token only if  *)
(* it is the character `x` followed by a decimal numeral; a line with any  *)
(* other register token fails with the invalid-register error naming the   *)
(* token, and no word is produced for the line.                            *)
(***************************************************************************)
C12_RegistersValidated ==
    (via = "text" /\ req.deco \in RegForms /\ pc # "start") =>
        /\ pc = "panicked"
        /\ err = [kind |-> "invalid_register", tok |-> OddRegToken(req)]
        /\ img = <<>>

\* the index of the first line of a program that is no instruction, 0 if none
FirstBad(p) ==
    IF \E i \in 1..Len(p) : p[i].kind = "bad"
    THEN CHOOSE i \in 1..Len(p) :
           p[i].kind = "bad" /\ \A j \in 1..(i - 1) : p[j].kind # "bad"
    ELSE 0

\* the error each line of BadLines is to be reported with
ExpectedPanic(txt) ==
    CASE txt = <<"n", "o", "p">> ->
           [kind |-> "unknown_instruction", tok |-> <<"n", "o", "p">>]
      [] txt = Render(Req("add", 1, 2, 3, NoTok, "alphareg")) ->
           [kind |-> "invalid_register", tok |-> <<"x", "a", "1">>]
      [] txt = L_addi_x1_x0_10 \o <<"z">> ->
           [kind |-> "invalid_decimal_immediate", tok |-> <<"1", "0", "z">>]
      [] txt = <<"l", "w", " ", "x", "1", ",", " ", "4", "x", "2">> ->
           [kind |-> "invalid_lw_format", tok |-> <<"4", "x", "2">>]

Stripped(txt) == trim(split_first(txt, "#"))

RECURSIVE WordsLineByLine(_)
\* the words of the lines of a program, each line assembled alone, in order
WordsLineByLine(p) ==
    IF p = <<>> THEN <<>>
    ELSE IF Stripped(Head(p).txt) = <<>> THEN WordsLineByLine(Tail(p))
    ELSE assemble(Head(p).txt).val \o WordsLineByLine(Tail(p))

(***************************************************************************)
(* C14: program assembly is line-wise and order-preserving.  For every     *)
(* program of valid lines assemble returns exactly one word for each line  *)
(* that is non-empty after the text from `#` on is removed and the rest    *)
(* trimmed, in source order, and the word of a line is the word obtained   *)
(* by assembling that line alone; blank and comment-only lines contribute  *)
(* nothing.                                                                *)
(***************************************************************************)
C14_LineWise ==
    (via = "asm" /\ FirstBad(prog) = 0 /\ pc # "start") =>
        /\ pc \notin {"panicked", "failed"}
        /\ Len(img) = Cardinality({i \in 1..Len(prog) : Stripped(prog[i].txt) # <<>>})
        /\ \A i \in 1..Len(prog) :
             Stripped(prog[i].txt) # <<>> =>
               assemble(prog[i].txt).ok /\ Len(assemble(prog[i].txt).val) = 1
        /\ img = WordsLineByLine(prog)

\* a comment-only line, then two different instructions, have been assembled
C14_Witness ==
    /\ via = "asm" /\ pc = "written" /\ Len(prog) = 3
    /\ prog[1].kind = "none" /\ prog[1].txt # <<>>
    /\ prog[2].txt = L_bne_x3_x2_m8
    /\ prog[3].txt = L_addi_x1_x0_10
    /\ Len(img) = 2

(***************************************************************************)
(* C15: C-type immediate sign round trip.  For each of bne, sw and blt,    *)
(* all registers in 0..31 and every offset in -32768..32767, the encoded   *)
(* word holds offset bits 15:5 in bits 31:21 and offset bits 4:0 in bits   *)
(* 10:6, and the immediate printed by decoding the word is the offset.     *)
(***************************************************************************)
C15_ImmRoundTrip ==
    (via = "call" /\ req.mn \in {"bne", "sw", "blt"} /\ InRangeRegs(req)
       /\ pc = "decoded") =>
        /\ Field(img[1], 21, 11) = (req.tok.val16 % 65536) \div 32
        /\ Field(img[1], 6, 5) = (req.tok.val16 % 65536) % 32
        /\ PrintedImm(text[1]) = FmtInt(req.tok.val16)

\* an sw with the most negative offset has been encoded and decoded
C15_Witness ==
    /\ via = "call" /\ pc = "decoded" /\ req.mn = "sw"
    /\ req.tok.val16 = -32768
    /\ req.a = 31

(***************************************************************************)
(* C16: A-type operand swap frame.  For add, mul and sub and all 8-bit rd, *)
(* rs1, rs2, encode(rd, rs1, rs2) and encode(rd, rs2, rs1) both have bits  *)
(* 31:21 zero, the same rd field (bits 10:6) and the same opcode (bits     *)
(* 5:0), and differ only by exchanging bits 20:16 and bits 15:11.          *)
(***************************************************************************)
C16_SwapFrame ==
    (via = "call" /\ req.mn \in ATypes /\ pc \in {"encoded", "decoded"}) =>
        LET w == img[1]
            v == CallEncoder([req EXCEPT !.b = req.c, !.c = req.b])
        IN  /\ Field(w, 21, 11) = 0
            /\ Field(v, 21, 11) = 0
            /\ Field(w, 6, 5) = Field(v, 6, 5)
            /\ Field(w, 0, 6) = Field(v, 0, 6)
            /\ Field(w, 16, 5) = Field(v, 11, 5)
            /\ Field(w, 11, 5) = Field(v, 16, 5)
            /\ Field(w, 6, 5) = req.a % 32
            /\ Field(w, 11, 5) = req.b % 32
            /\ Field(w, 16, 5) = req.c % 32

\* a sub whose three operands all exceed 31 has been encoded
C16_Witness ==
    /\ via = "call" /\ pc = "encoded" /\ req.mn = "sub"
    /\ req.a = 128 /\ req.b = 33 /\ req.c = 255

(***************************************************************************)
(* C17: object file round trip.  write_object_file emits exactly           *)
(* 4 * len(ws) bytes, each word least significant byte first, with no      *)
(* header; and with 0 to 3 extra bytes after them read_binary_file returns *)
(* exactly ws, in order, without error.                                    *)
(***************************************************************************)
C17_ObjectRoundTrip ==
    (via \in {"asm", "image"} /\ pc \in {"written", "appended", "disassembled"}) =>
        /\ obj.exists
        /\ pc = "written" => Len(obj.bytes) = 4 * Len(img)
        /\ Len(obj.bytes) - 4 * Len(img) \in 0..3
        /\ \A k \in 1..Len(img) : \A j \in 0..3 :
             obj.bytes[4 * (k - 1) + j + 1] = Field(img[k], 8 * j, 8)
        /\ pc = "disassembled" => instructions = img

\* two words followed by three more bytes have been read back
C17_Witness ==
    /\ via = "image" /\ pc = "disassembled"
    /\ Len(img) = 2 /\ Len(obj.bytes) = 11
    /\ img[1] # img[2]

\* the number four hexadecimal digits denote
HexVal4(d) ==
    to_digit(d[1], 16) * 4096 + to_digit(d[2], 16) * 256
      + to_digit(d[3], 16) * 16 + to_digit(d[4], 16)

(***************************************************************************)
(* C18: disassembly never stops on unrecognised data.  For every input of  *)
(* n words run_disassembler emits, after its three header lines, exactly n *)
(* instruction lines in input order, the i-th (from 0) carrying address    *)
(* 4 * i, the i-th word and its decoded text, whether or not an earlier    *)
(* word decoded to an unknown instruction.                                 *)
(***************************************************************************)
C18_ListingComplete ==
    (pc = "disassembled") =>
        LET ls == lines(output.bytes)
        IN  /\ output.exists
            /\ Len(ls) = 3 + Len(img)
            /\ ls[1][1] = "#" /\ ls[2][1] = "#" /\ ls[3] = <<>>
            /\ \A i \in 0..(Len(img) - 1) :
                 LET l == ls[4 + i]
                 IN  /\ Len(l) >= 18
                     /\ HexVal4(SubSeq(l, 1, 4)) = 4 * i
                     /\ SubSeq(l, 5, 7) = <<":", " ", " ">>
                     /\ WordOfHex(SubSeq(l, 8, 15)) = img[i + 1]
                     /\ SubSeq(l, 16, 17) = <<" ", " ">>
                     /\ SubSeq(l, 18, Len(l)) = decode_instruction(img[i + 1])

\* a listing of three words has been written whose first word is unknown
\* and whose last is not
C18_Witness ==
    /\ pc = "disassembled" /\ Len(img) = 3
    /\ Field(img[1], 0, 6) = 63
    /\ Field(img[3], 0, 6) = 1

(***************************************************************************)
(* C19: round trip on the subset the cycle test asserts exactly.  For add, *)
(* mul, sub, addi, slli, lw, lui, bne and halt, every register in 0..31    *)
(* and every immediate in -32768..32767 written in decimal, assemble(line) *)
(* has length 1 and decode_instruction of the word is the line, character  *)
(* for character; for lui the rs1 field of the word is 0.                  *)
(***************************************************************************)
C19_SubsetRoundTrip ==
    (via = "text" /\ req.mn \notin {"sw", "blt"} /\ req.deco = "plain"
       /\ req.tok.form \in {"dec", "none"} /\ req.tok.wide = 0
       /\ InRangeRegs(req) /\ pc # "start") =>
        /\ pc # "panicked"
        /\ Len(img) = 1
        /\ req.mn = "lui" => Field(img[1], 11, 5) = 0
        /\ pc = "decoded" => text = <<input>>

\* an lw with the most negative offset has made the round trip
C19_Witness ==
    /\ via = "text" /\ pc = "decoded" /\ req.mn = "lw" /\ req.deco = "plain"
    /\ req.a = 31 /\ req.b = 16 /\ req.tok.txt = FmtInt(-32768)

\* the word w with bits 31:21 cleared
ClearHigh(w) == [i \in BitIx |-> IF i >= 21 THEN 0 ELSE w[i]]

\* the word w with bits 15:11 cleared
ClearRs1(w) == [i \in BitIx |-> IF i \in 11..15 THEN 0 ELSE w[i]]

(***************************************************************************)
(* C20: the decoder is insensitive to bits the encoder always clears.  For *)
(* a word with opcode add, mul or sub the decoded text is that of the word *)
(* with bits 31:21 cleared, and for a word with opcode lui that of the     *)
(* word with bits 15:11 cleared; re-assembling the decoded line gives the  *)
(* word with those bits cleared, so it reproduces the original word only   *)
(* when those bits were zero.                                              *)
(***************************************************************************)
C20_ClearedBitsIgnored ==
    (via = "word" /\ pc = "decoded"
       /\ Field(img[1], 0, 6) \in {OPCODE_ADD, OPCODE_MUL, OPCODE_SUB, OPCODE_LUI}) =>
        LET w == img[1]
            c == IF Field(w, 0, 6) = OPCODE_LUI THEN ClearRs1(w) ELSE ClearHigh(w)
            back == assemble(text[1])
        IN  /\ text[1] = decode_instruction(c)
            /\ back.ok
            /\ back.val = <<c>>
            /\ (back.val = <<w>>) <=> (w = c)

\* an add word with all of bits 31:21 set has been decoded
C20_Witness ==
    /\ via = "word" /\ pc = "decoded"
    /\ Field(img[1], 0, 6) = OPCODE_ADD
    /\ Field(img[1], 21, 11) = 2047
    /\ Field(img[1], 16, 5) = 31

====
